---------------------------- MODULE Spec2Model ----------------------------
(***************************************************************************)
(* Model of gst_processor.py: a one-shot pipeline that downloads a PDF,    *)
(* reads the text of its first page, extracts a notification date and a   *)
(* subject from that text, composes the file name <date>_<subject>.pdf    *)
(* and downloads the document again to save it under notifications/.      *)
(*                                                                         *)
(* A Python str is modelled as a sequence of one-character strings, so    *)
(* that the regular expressions, the splitting and the cleaning act on    *)
(* characters as the code does.  None is the value <<"None">>, which is   *)
(* no character sequence.                                                  *)
(***************************************************************************)
EXTENDS Integers, Sequences, FiniteSets, TLC

None == <<"None">>

---------------------------------------------------------------------------
(* Characters and the str methods the program uses.                        *)

DigitSeq == <<"0","1","2","3","4","5","6","7","8","9">>
LowerSeq ==
  << "a","b","c","d","e","f","g","h","i","j","k","l","m",
     "n","o","p","q","r","s","t","u","v","w","x","y","z" >>
UpperSeq ==
  << "A","B","C","D","E","F","G","H","I","J","K","L","M",
     "N","O","P","Q","R","S","T","U","V","W","X","Y","Z" >>

Range(f) == {f[i] : i \in DOMAIN f}
Digits == Range(DigitSeq)
LowerSet == Range(LowerSeq)
UpperSet == Range(UpperSeq)

MinOf(S) == CHOOSE x \in S : \A y \in S : x <= y
MaxOf(S) == CHOOSE x \in S : \A y \in S : x >= y

\* \s of the re module, and the characters str.strip() removes
IsSpace(c) == c \in {" ", "\n", "\t", "\r"}
\* \w of the re module
IsWord(c) == c \in Digits \cup LowerSet \cup UpperSet \cup {"_"}

ToUpper(c) == IF c \in LowerSet THEN UpperSeq[CHOOSE i \in 1..26 : LowerSeq[i] = c] ELSE c
ToLower(c) == IF c \in UpperSet THEN LowerSeq[CHOOSE i \in 1..26 : UpperSeq[i] = c] ELSE c
\* str.upper() and str.lower()
Upper(s) == [i \in 1..Len(s) |-> ToUpper(s[i])]
Lower(s) == [i \in 1..Len(s) |-> ToLower(s[i])]

\* s[:n]
Take(s, n) == SubSeq(s, 1, IF Len(s) < n THEN Len(s) ELSE n)
\* s[i:] for a 1-based i
From(s, i) == SubSeq(s, i, Len(s))

\* lit occurs in s at position i
OccursAt(s, lit, i) ==
  /\ i >= 1
  /\ i + Len(lit) - 1 <= Len(s)
  /\ \A k \in 1..Len(lit) : s[i + k - 1] = lit[k]
\* the position of the first occurrence of lit in s, 0 when there is none (str.find)
Find(s, lit) ==
  LET at == {i \in 1..Len(s) : OccursAt(s, lit, i)}
  IN  IF at = {} THEN 0 ELSE MinOf(at)
\* lit in s
Contains(s, lit) == \E i \in 1..Len(s) : OccursAt(s, lit, i)

\* s.strip()
Strip(s) ==
  LET keep == {i \in 1..Len(s) : ~IsSpace(s[i])}
  IN  IF keep = {} THEN <<>> ELSE SubSeq(s, MinOf(keep), MaxOf(keep))
\* s.rstrip('_')
RStripUnderscore(s) ==
  LET keep == {i \in 1..Len(s) : s[i] # "_"}
  IN  IF keep = {} THEN <<>> ELSE SubSeq(s, 1, MaxOf(keep))

\* s.split(sep) for a one-character sep
RECURSIVE Split(_, _)
Split(s, sep) ==
  LET p == Find(s, <<sep>>)
  IN  IF p = 0 THEN <<s>> ELSE <<SubSeq(s, 1, p - 1)>> \o Split(From(s, p + 1), sep)

\* sep.join(parts)
RECURSIVE Join(_, _)
Join(parts, sep) ==
  IF parts = <<>> THEN <<>>
  ELSE IF Len(parts) = 1 THEN parts[1]
  ELSE parts[1] \o sep \o Join(Tail(parts), sep)

\* int(s) for a string of decimal digits
DigitVal(c) == (CHOOSE i \in 1..10 : DigitSeq[i] = c) - 1
RECURSIVE ToInt(_)
ToInt(s) == IF s = <<>> THEN 0 ELSE 10 * ToInt(SubSeq(s, 1, Len(s) - 1)) + DigitVal(s[Len(s)])
\* str(n) for n >= 0
RECURSIVE IntToStr(_)
IntToStr(n) == IF n < 10 THEN <<DigitSeq[n + 1]>> ELSE IntToStr(n \div 10) \o <<DigitSeq[(n % 10) + 1]>>
\* f"{n:0{w}d}"
RECURSIVE Pad(_, _)
Pad(n, w) == LET s == IntToStr(n) IN IF Len(s) >= w THEN s ELSE <<"0">> \o Pad(n, w - 1)

---------------------------------------------------------------------------
(* parse_gst_details: the two date patterns.                               *)
(* Both are compiled with re.IGNORECASE: the text is lower-cased before it *)
(* is compared with a literal of the pattern.                              *)

KW_DATED == <<"d","a","t","e","d">>
KW_DATE == <<"d","a","t","e">>
KW_NO == <<"n","o",".">>
\* the alternation (?:Dated|Date|No\.\s*), in the order the engine tries it
Keywords == <<KW_DATED, KW_DATE, KW_NO>>
\* [./-]
Seps == {".", "/", "-"}
\* (?:st|nd|rd|th)
Suffixes == {<<"s","t">>, <<"n","d">>, <<"r","d">>, <<"t","h">>}
MonthNames ==
  << <<"j","a","n","u","a","r","y">>,
     <<"f","e","b","r","u","a","r","y">>,
     <<"m","a","r","c","h">>,
     <<"a","p","r","i","l">>,
     <<"m","a","y">>,
     <<"j","u","n","e">>,
     <<"j","u","l","y">>,
     <<"a","u","g","u","s","t">>,
     <<"s","e","p","t","e","m","b","e","r">>,
     <<"o","c","t","o","b","e","r">>,
     <<"n","o","v","e","m","b","e","r">>,
     <<"d","e","c","e","m","b","e","r">> >>

\* a literal of an IGNORECASE pattern matches s at position i
MatchNoCase(s, lit, i) ==
  /\ i + Len(lit) - 1 <= Len(s)
  /\ \A k \in 1..Len(lit) : ToLower(s[i + k - 1]) = lit[k]
\* \d{n} matches s at position i
DigitsAt(s, i, n) ==
  /\ i + n - 1 <= Len(s)
  /\ \A k \in i..(i + n - 1) : s[k] \in Digits
\* the position after the longest run of the characters of class that starts at i
SkipRun(s, i, class) ==
  LET stop == {k \in i..Len(s) : s[k] \notin class}
  IN  IF stop = {} THEN Len(s) + 1 ELSE MinOf(stop)
\* \s
Spaces == {" ", "\n", "\t", "\r"}
\* the first element of the sequence of attempts that is not a failure (<<>>):
\* the order in which a backtracking engine commits
FirstMatch(attempts) ==
  LET hit == {k \in 1..Len(attempts) : attempts[k] # <<>>}
  IN  IF hit = {} THEN <<>> ELSE attempts[MinOf(hit)]

\* \d{n1}[./-]\d{n2}[./-]\d{4} at position j: <<j, end>> or <<>>
NumericDateWith(s, j, n1, n2) ==
  IF /\ DigitsAt(s, j, n1)
     /\ j + n1 <= Len(s) /\ s[j + n1] \in Seps
     /\ DigitsAt(s, j + n1 + 1, n2)
     /\ j + n1 + 1 + n2 <= Len(s) /\ s[j + n1 + 1 + n2] \in Seps
     /\ DigitsAt(s, j + n1 + n2 + 2, 4)
  THEN <<j, j + n1 + n2 + 5>>
  ELSE <<>>
\* (\d{1,2}[./-]\d{1,2}[./-]\d{4}) at position j; each \d{1,2} is greedy
NumericDateAt(s, j) ==
  FirstMatch(<< NumericDateWith(s, j, 2, 2), NumericDateWith(s, j, 2, 1),
                NumericDateWith(s, j, 1, 2), NumericDateWith(s, j, 1, 1) >>)
\* \s*[:\s]* (after No\. a further \s*): a run of whitespace and colons.  What
\* follows must be a digit, so only the longest run can lead to a match.
Filler == Spaces \cup {":"}
\* date_pattern_1 anchored at position i: the span of group 1, or <<>>
DatePattern1At(s, i) ==
  FirstMatch([k \in 1..Len(Keywords) |->
    IF MatchNoCase(s, Keywords[k], i)
    THEN NumericDateAt(s, SkipRun(s, i + Len(Keywords[k]), Filler))
    ELSE <<>>])
\* date_pattern_1.search(text): the match at the leftmost position, or <<>>
DatePattern1Search(s) ==
  LET at == {i \in 1..Len(s) : DatePattern1At(s, i) # <<>>}
  IN  IF at = {} THEN <<>> ELSE DatePattern1At(s, MinOf(at))

\* the rest of date_pattern_2 once the day (n digits at i) and the optional suffix
\* (of length suf) are fixed: \s+(month),\s+(\d{4}); the three groups, or <<>>
SpelledDateWith(s, i, n, suf) ==
  LET a == i + n + suf
      b == SkipRun(s, a, Spaces)
      ms == {m \in 1..12 : MatchNoCase(s, MonthNames[m], b)}
      m == MinOf(ms)
      c == b + Len(MonthNames[m])
      d == SkipRun(s, c + 1, Spaces)
  IN  IF /\ DigitsAt(s, i, n)
         /\ suf = 2 => (a - 1 <= Len(s) /\ Lower(SubSeq(s, i + n, a - 1)) \in Suffixes)
         /\ b > a
         /\ ms # {}
         /\ c <= Len(s) /\ s[c] = ","
         /\ d > c + 1
         /\ DigitsAt(s, d, 4)
      THEN << SubSeq(s, i, i + n - 1), SubSeq(s, b, c - 1), SubSeq(s, d, d + 3) >>
      ELSE <<>>
\* date_pattern_2 anchored at position i: \d{1,2} and (?:..)? are greedy
DatePattern2At(s, i) ==
  FirstMatch(<< SpelledDateWith(s, i, 2, 2), SpelledDateWith(s, i, 2, 0),
                SpelledDateWith(s, i, 1, 2), SpelledDateWith(s, i, 1, 0) >>)
\* date_pattern_2.search(text).groups(), or <<>>
DatePattern2Search(s) ==
  LET at == {i \in 1..Len(s) : s[i] \in Digits /\ DatePattern2At(s, i) # <<>>}
  IN  IF at = {} THEN <<>> ELSE DatePattern2At(s, MinOf(at))

\* MonthNumber as if the index of the name in the list of months were returned
MonthNumber_ZeroBased(month_name) ==
  (CHOOSE m \in 1..12 : MonthNames[m] = Lower(month_name)) - 1
\* datetime.strptime(month_name, '%B').month: the name is looked up lower-cased
MonthNumber(month_name) == CHOOSE m \in 1..12 : MonthNames[m] = Lower(month_name)

\* which branch of the date extraction sets raw_date
DateSource(text) ==
  IF DatePattern1Search(text) # <<>> THEN "numeric"
  ELSE IF DatePattern2Search(text) # <<>> THEN "spelled"
  ELSE "none"

\* the date extraction of parse_gst_details: raw_date
ExtractRawDate(text) ==
  LET date_match == DatePattern1Search(text)
      date_match_2 == DatePattern2Search(text)
  IN  IF date_match # <<>>
      THEN Strip(SubSeq(text, date_match[1], date_match[2]))
      ELSE IF date_match_2 # <<>>
           THEN Pad(ToInt(date_match_2[1]), 2) \o <<"/">>
                  \o Pad(MonthNumber(date_match_2[2]), 2) \o <<"/">> \o date_match_2[3]
           ELSE None

---------------------------------------------------------------------------
(* parse_gst_details: the subject heuristics and the cleaning.             *)

GOVERNMENT == <<"G","O","V","E","R","N","M","E","N","T">>
GOVERNMENT_OF_INDIA == <<"G","O","V","E","R","N","M","E","N","T"," ","O","F"," ","I","N","D","I","A">>
NOTIFICATION_NO == <<"N","o","t","i","f","i","c","a","t","i","o","n"," ","N","o",".">>
SUBJECT_NOT_FOUND == <<"S","u","b","j","e","c","t","_","N","o","t","_","F","o","u","n","d">>

\* lines[:10]: how many significant lines heuristic 2a looks at
HeadingWindow == 10
\* len(line) > 30 in heuristic 2a
HeadingMinLen == 30
\* len(line) > 10 in heuristic 2b
FallbackMinLen == 10
\* [:3] in heuristic 2b
FallbackLines == 3
\* [:80] in the cleaning
SubjectMaxLen == 80

NonBlank(line) == Strip(line) # <<>>
StripAll(ls) == [i \in 1..Len(ls) |-> Strip(ls[i])]

\* lines = [line.strip() for line in text.split('\n') if line.strip()]
SignificantLines(text) == StripAll(SelectSeq(Split(text, "\n"), NonBlank))

\* IsHeading as if the test were len(line) >= 30
IsHeading_AtLeast(line) ==
  /\ Len(line) >= HeadingMinLen
  /\ line = Upper(line)
  /\ ~Contains(line, GOVERNMENT)
\* the test of heuristic 2a on one line
IsHeading(line) ==
  /\ Len(line) > HeadingMinLen
  /\ line = Upper(line)
  /\ ~Contains(line, GOVERNMENT)

\* heuristic 2a: the first heading among lines[:10], or the sentinel
HeadingSubject(text) ==
  LET lines == Take(SignificantLines(text), HeadingWindow)
      hit == {i \in 1..Len(lines) : IsHeading(lines[i])}
  IN  IF hit = {} THEN SUBJECT_NOT_FOUND ELSE lines[MinOf(hit)]

\* text.split("GOVERNMENT OF INDIA", 1)[-1]: what follows the first occurrence of
\* the header, and the whole text when the header does not occur
RelevantText(text) ==
  LET p == Find(text, GOVERNMENT_OF_INDIA)
  IN  IF p = 0 THEN text ELSE From(text, p + Len(GOVERNMENT_OF_INDIA))

\* the filter of heuristic 2b, on the line as split (not stripped)
IsFallbackLine(line) ==
  /\ Strip(line) # <<>>
  /\ Len(line) > FallbackMinLen
  /\ ~Contains(line, NOTIFICATION_NO)

\* fallback_lines of heuristic 2b
FallbackSubjectLines(text) ==
  Take(StripAll(SelectSeq(Split(RelevantText(text), "\n"), IsFallbackLine)), FallbackLines)

\* the subject before cleaning: 2a, then 2b when 2a left the sentinel
RawSubject(text) ==
  LET heading == HeadingSubject(text)
      fallback_lines == FallbackSubjectLines(text)
  IN  IF heading = SUBJECT_NOT_FOUND /\ fallback_lines # <<>>
      THEN Join(fallback_lines, <<" ">>)
      ELSE heading

\* IsKept as if the pattern were [^\w\s.-]
IsKept_AlsoDot(c) == IsWord(c) \/ IsSpace(c) \/ c \in {"-", "."}
\* re.sub(r'[^\w\s-]', '', subject)
IsKept(c) == IsWord(c) \/ IsSpace(c) \/ c = "-"
RemoveUnsafe(s) == SelectSeq(s, IsKept)
\* re.sub(r'\s+', '_', subject): every run of whitespace becomes one underscore
IsChar(c) == c # ""
CollapseSpaces(s) ==
  SelectSeq([i \in 1..Len(s) |->
               IF ~IsSpace(s[i]) THEN s[i]
               ELSE IF i > 1 /\ IsSpace(s[i - 1]) THEN "" ELSE "_"],
            IsChar)
\* TruncateSubject as if the underscores were stripped before the truncation
TruncateSubject_StripFirst(s) == Take(RStripUnderscore(CollapseSpaces(s)), SubjectMaxLen)
\* re.sub(r'\s+', '_', subject)[:80].rstrip('_')
TruncateSubject(s) == RStripUnderscore(Take(CollapseSpaces(s), SubjectMaxLen))
\* section 3 of parse_gst_details
CleanSubject(s) == TruncateSubject(Strip(RemoveUnsafe(s)))

\* sections 2 and 3 of parse_gst_details: subject
ExtractSubject(text) == CleanSubject(RawSubject(text))

---------------------------------------------------------------------------
(* The date handling of the main block.                                    *)

\* NormalizeSeps as if only the hyphens were replaced
NormalizeSeps_OnlyHyphen(s) == [i \in 1..Len(s) |-> IF s[i] = "-" THEN "/" ELSE s[i]]
\* raw_date.replace('-', '/').replace('.', '/')
NormalizeSeps(s) == [i \in 1..Len(s) |-> IF s[i] \in {"-", "."} THEN "/" ELSE s[i]]

\* the directive %d of strptime: 3[0-1]|[1-2]\d|0[1-9]|[1-9]| [1-9]
MatchesDayField(f) ==
  \/ Len(f) = 2 /\ f[1] = "3" /\ f[2] \in {"0", "1"}
  \/ Len(f) = 2 /\ f[1] \in {"1", "2"} /\ f[2] \in Digits
  \/ Len(f) = 2 /\ f[1] = "0" /\ f[2] \in Digits \ {"0"}
  \/ Len(f) = 1 /\ f[1] \in Digits \ {"0"}
  \/ Len(f) = 2 /\ f[1] = " " /\ f[2] \in Digits \ {"0"}
\* the directive %m: 1[0-2]|0[1-9]|[1-9]
MatchesMonthField(f) ==
  \/ Len(f) = 2 /\ f[1] = "1" /\ f[2] \in {"0", "1", "2"}
  \/ Len(f) = 2 /\ f[1] = "0" /\ f[2] \in Digits \ {"0"}
  \/ Len(f) = 1 /\ f[1] \in Digits \ {"0"}
\* the directive %Y: \d\d\d\d
MatchesYearField(f) == Len(f) = 4 /\ \A k \in 1..4 : f[k] \in Digits

IsLeap(y) == (y % 4 = 0 /\ y % 100 # 0) \/ y % 400 = 0
DaysInMonth(y, m) ==
  IF m = 2 THEN (IF IsLeap(y) THEN 29 ELSE 28)
  ELSE IF m \in {4, 6, 9, 11} THEN 30 ELSE 31

\* Strptime as if the day were not checked against the month, nor the year against 0
Strptime_NoRangeCheck(s) ==
  LET f == Split(s, "/")
  IN  IF /\ Len(f) = 3
         /\ MatchesDayField(f[1]) /\ MatchesMonthField(f[2]) /\ MatchesYearField(f[3])
      THEN <<ToInt(f[3]), ToInt(f[2]), ToInt(Strip(f[1]))>>
      ELSE <<>>
\* datetime.strptime(s, '%d/%m/%Y'): the date <<year, month, day>>, or <<>> where
\* strptime raises ValueError (no match of the format, year 0, no such day)
Strptime(s) ==
  LET f == Split(s, "/")
      y == ToInt(f[3])
      m == ToInt(f[2])
      d == ToInt(Strip(f[1]))
  IN  IF /\ Len(f) = 3
         /\ MatchesDayField(f[1]) /\ MatchesMonthField(f[2]) /\ MatchesYearField(f[3])
         /\ y >= 1
         /\ d <= DaysInMonth(y, m)
      THEN <<y, m, d>>
      ELSE <<>>

\* date.strftime('%Y-%m-%d').  %m and %d are two digits everywhere; %Y is four
\* digits where the C library pads it and the bare number where it does not
\* (glibc), which shows for the years below 1000.
Strftime(date, pads_year) ==
  (IF pads_year THEN Pad(date[1], 4) ELSE IntToStr(date[1]))
    \o <<"-">> \o Pad(date[2], 2) \o <<"-">> \o Pad(date[3], 2)

PDF_EXT == <<".","p","d","f">>
\* f"{date_prefix}_{subject}.pdf"
ComposeFilename(date_prefix, subject) == date_prefix \o <<"_">> \o subject \o PDF_EXT

---------------------------------------------------------------------------
(* The first-page texts the model feeds to the program: every sequence of  *)
(* at most MaxFrags of the fragments below, joined by newlines.            *)

\* 'GOVERNMENT OF INDIA MINISTRY OF FINANCE'  (line lengths 39)
F_HEADER ==
  << "G","O","V","E","R","N","M","E","N","T"," ","O","F"," ","I","N","D","I","A"," ","M","I","N","I",
     "S","T","R","Y"," ","O","F"," ","F","I","N","A","N","C","E" >>
\* 'GOVERNMENT OF INDIA\nNotification No. 12/2025 Dated 15/08/2025'  (line lengths 19, 41)
F_SCENARIO_HEAD ==
  << "G","O","V","E","R","N","M","E","N","T"," ","O","F"," ","I","N","D","I","A","\n","N","o","t",
     "i","f","i","c","a","t","i","o","n"," ","N","o","."," ","1","2","/","2","0","2","5"," ","D","a",
     "t","e","d"," ","1","5","/","0","8","/","2","0","2","5" >>
\* 'Notification No. 3/2024 dated: 1-12-2024'  (line lengths 40)
F_NOTIF_DATED ==
  << "N","o","t","i","f","i","c","a","t","i","o","n"," ","N","o","."," ","3","/","2","0","2","4"," ",
     "d","a","t","e","d",":"," ","1","-","1","2","-","2","0","2","4" >>
\* 'DATE:  5.8-0999'  (line lengths 15)
F_DATE_SMALL_YEAR ==
  << "D","A","T","E",":"," "," ","5",".","8","-","0","9","9","9" >>
\* 'no. 99/99/9999'  (line lengths 14)
F_NO_BAD_DATE ==
  << "n","o","."," ","9","9","/","9","9","/","9","9","9","9" >>
\* 'the 5th November, 2025'  (line lengths 22)
F_SPELLED ==
  << "t","h","e"," ","5","t","h"," ","N","o","v","e","m","b","e","r",","," ","2","0","2","5" >>
\* '31 FEBRUARY,\n 2025'  (line lengths 12, 5)
F_SPELLED_BAD ==
  << "3","1"," ","F","E","B","R","U","A","R","Y",",","\n"," ","2","0","2","5" >>
\* 'EXEMPTION FROM CENTRAL GOODS AND TAX'  (line lengths 36)
F_CAPS ==
  << "E","X","E","M","P","T","I","O","N"," ","F","R","O","M"," ","C","E","N","T","R","A","L"," ","G",
     "O","O","D","S"," ","A","N","D"," ","T","A","X" >>
\* 'CENTRAL BOARD OF INDIRECT TAX.'  (line lengths 30)
F_CAPS30 ==
  << "C","E","N","T","R","A","L"," ","B","O","A","R","D"," ","O","F"," ","I","N","D","I","R","E","C",
     "T"," ","T","A","X","." >>
\* 'a\nb\nc\nd\ne\nf\ng\nh\ni'  (line lengths 1, 1, 1, 1, 1, 1, 1, 1, 1)
F_NINE_LINES ==
  << "a","\n","b","\n","c","\n","d","\n","e","\n","f","\n","g","\n","h","\n","i" >>
\* 'Seeks to exempt supplies of goods under\nsection 11 of the said Act as specified'  (line lengths 39, 39)
F_TWO_LONG ==
  << "S","e","e","k","s"," ","t","o"," ","e","x","e","m","p","t"," ","s","u","p","p","l","i","e","s",
     " ","o","f"," ","g","o","o","d","s"," ","u","n","d","e","r","\n","s","e","c","t","i","o","n",
     " ","1","1"," ","o","f"," ","t","h","e"," ","s","a","i","d"," ","A","c","t"," ","a","s"," ","s",
     "p","e","c","i","f","i","e","d" >>
\* '   rule 7      '  (line lengths 15)
F_PADDED ==
  << " "," "," ","r","u","l","e"," ","7"," "," "," "," "," "," " >>
\* 'Subject Not Found'  (line lengths 17)
F_SENTINEL_LIKE ==
  << "S","u","b","j","e","c","t"," ","N","o","t"," ","F","o","u","n","d" >>
\* '***********************************'  (line lengths 35)
F_STARS ==
  << "*","*","*","*","*","*","*","*","*","*","*","*","*","*","*","*","*","*","*","*","*","*","*","*",
     "*","*","*","*","*","*","*","*","*","*","*" >>
\* '__draft - copy (final)__'  (line lengths 24)
F_UNDERSCORES ==
  << "_","_","d","r","a","f","t"," ","-"," ","c","o","p","y"," ","(","f","i","n","a","l",")","_","_" >>

Fragments ==
  { F_HEADER, F_SCENARIO_HEAD, F_NOTIF_DATED, F_DATE_SMALL_YEAR, F_NO_BAD_DATE, F_SPELLED,
    F_SPELLED_BAD, F_CAPS, F_CAPS30, F_NINE_LINES, F_TWO_LONG, F_PADDED, F_SENTINEL_LIKE,
    F_STARS, F_UNDERSCORES }

\* the most fragments in a text
MaxFrags == 2

TextsOf(n) == {Join(fs, <<"\n">>) : fs \in [1..n -> Fragments]}
\* extract_text() may also return the empty string (n = 0)
Texts == UNION {TextsOf(n) : n \in 0..MaxFrags}

---------------------------------------------------------------------------
(* The run of the script.                                                  *)

\* PDF_OUTPUT_DIR
PDF_OUTPUT_DIR == "notifications"

\* the values len(sys.argv) takes: no argument, one URL, two arguments
ArgCounts == {1, 2, 3}
\* the dates datetime.now() may return
Clock == {<<2026, 11, 2>>, <<2024, 2, 29>>}
\* how requests.get followed by raise_for_status() can end
GetOutcomes == {"ok", "network_error", "http_error"}

VARIABLES
  argc,          \* len(sys.argv)
  pc,            \* where the script is
  gets,          \* the outcomes of the HTTP GETs issued so far, in order
  pdf_text,      \* the result of download_and_read_pdf
  parse_calls,   \* how often parse_gst_details was called
  raw_date,      \* the results of parse_gst_details
  subject,
  date_source,   \* the branch of the date extraction that set raw_date
  now,           \* the date datetime.now() returned, None while it was not asked
  date_prefix,
  new_filename,  \* the file name passed to create_and_save_pdf
  dir_made,      \* os.makedirs(PDF_OUTPUT_DIR) was carried out
  files,         \* the files written in full
  partial,       \* the files opened for writing whose write failed
  log,           \* the messages printed, in order
  exit_code      \* the exit status, -1 while the script runs

vars ==
  << argc, pc, gets, pdf_text, parse_calls, raw_date, subject, date_source, now,
     date_prefix, new_filename, dir_made, files, partial, log, exit_code >>

\* Truthy as if the test were v is not None
Truthy_NotNone(v) == v # None
\* the truth value Python gives a str or None
Truthy(v) == v # None /\ v # <<>>

Init ==
  /\ argc \in ArgCounts
  /\ pc = "start"
  /\ gets = <<>>
  /\ pdf_text = None
  /\ parse_calls = 0
  /\ raw_date = None
  /\ subject = None
  /\ date_source = "unset"
  /\ now = None
  /\ date_prefix = None
  /\ new_filename = None
  /\ dir_made = FALSE
  /\ files = {}
  /\ partial = {}
  /\ log = <<>>
  /\ exit_code = -1

\* sys.exit(1) after printing msg
Exit1(msg) ==
  /\ log' = Append(log, msg)
  /\ exit_code' = 1
  /\ pc' = "done"

\* the argument check that opens the main block
CheckArgs ==
  /\ pc = "start"
  /\ IF argc # 2
     THEN Exit1("usage")
     ELSE /\ log' = Append(log, "processing")
          /\ pc' = "download"
          /\ UNCHANGED exit_code
  /\ UNCHANGED << argc, gets, pdf_text, parse_calls, raw_date, subject, date_source, now,
                  date_prefix, new_filename, dir_made, files, partial >>

\* pdf_text = download_and_read_pdf(pdf_url): every exception is caught, printed
\* and turned into None
Download ==
  /\ pc = "download"
  /\ \/ \E failure \in GetOutcomes \ {"ok"} :
          /\ gets' = Append(gets, failure)
          /\ log' = Append(log, "error_downloading")
          /\ pdf_text' = None
     \/ /\ gets' = Append(gets, "ok")
        /\ \/ /\ log' = Append(log, "error_reading")       \* PdfReader or extract_text raises
              /\ pdf_text' = None
           \/ /\ log' = Append(log, "no_pages")            \* not reader.pages
              /\ pdf_text' = None
           \/ /\ pdf_text' \in Texts                       \* reader.pages[0].extract_text()
              /\ UNCHANGED log
  /\ pc' = "downloaded"
  /\ UNCHANGED << argc, parse_calls, raw_date, subject, date_source, now, date_prefix,
                  new_filename, dir_made, files, partial, exit_code >>

\* if pdf_text: raw_date, subject = parse_gst_details(pdf_text)
ParseDetails ==
  /\ pc = "downloaded"
  /\ Truthy(pdf_text)
  /\ raw_date' = ExtractRawDate(pdf_text)
  /\ subject' = ExtractSubject(pdf_text)
  /\ date_source' = DateSource(pdf_text)
  /\ parse_calls' = parse_calls + 1
  /\ pc' = "parsed"
  /\ UNCHANGED << argc, gets, pdf_text, now, date_prefix, new_filename, dir_made, files,
                  partial, log, exit_code >>

\* the else branch of if pdf_text
DownloadFailed ==
  /\ pc = "downloaded"
  /\ ~Truthy(pdf_text)
  /\ Exit1("terminated")
  /\ UNCHANGED << argc, gets, pdf_text, parse_calls, raw_date, subject, date_source, now,
                  date_prefix, new_filename, dir_made, files, partial >>

\* HasDetails as if raw_date were not tested
HasDetails_IgnoresDate == subject # None /\ subject # <<>> /\ subject # SUBJECT_NOT_FOUND
\* HasDetails as if the subject were not compared with the sentinel
HasDetails_AcceptsSentinel ==
  raw_date # None /\ raw_date # <<>> /\ subject # None /\ subject # <<>>
\* if raw_date and subject and subject != "Subject_Not_Found"
HasDetails == Truthy(raw_date) /\ Truthy(subject) /\ subject # SUBJECT_NOT_FOUND

\* the try block that turns raw_date into date_prefix, and the file name
Compose ==
  /\ pc = "parsed"
  /\ HasDetails
  /\ \E pads_year \in BOOLEAN :
       LET date_obj == Strptime(NormalizeSeps(raw_date))
       IN  IF date_obj # <<>>
           THEN /\ date_prefix' = Strftime(date_obj, pads_year)
                /\ new_filename' = ComposeFilename(date_prefix', subject)
                /\ log' = Append(log, "constructed")
                /\ UNCHANGED now
           ELSE /\ now' \in Clock                          \* except ValueError
                /\ date_prefix' = Strftime(now', pads_year)
                /\ new_filename' = ComposeFilename(date_prefix', subject)
                /\ log' = log \o <<"warning_date", "constructed">>
  /\ pc' = "save"
  /\ UNCHANGED << argc, gets, pdf_text, parse_calls, raw_date, subject, date_source, dir_made,
                  files, partial, exit_code >>

\* the else branch of the test of the details
ExtractionFailed ==
  /\ pc = "parsed"
  /\ ~HasDetails
  /\ Exit1("error_extract")
  /\ UNCHANGED << argc, gets, pdf_text, parse_calls, raw_date, subject, date_source, now,
                  date_prefix, new_filename, dir_made, files, partial >>

\* os.path.join(PDF_OUTPUT_DIR, new_filename)
FilePath(name) == [dir |-> PDF_OUTPUT_DIR, name |-> name]

\* create_and_save_pdf(pdf_url, new_filename), after which the script ends: with
\* sys.exit(1) from an except clause, with status 0 otherwise
Save ==
  /\ pc = "save"
  /\ \/ \E failure \in GetOutcomes \ {"ok"} :               \* the second GET fails
          /\ gets' = Append(gets, failure)
          /\ log' = Append(log, "error_saving")
          /\ exit_code' = 1
          /\ UNCHANGED << dir_made, files, partial >>
     \/ /\ gets' = Append(gets, "ok")
        /\ \/ /\ log' = Append(log, "error_unexpected")    \* os.makedirs raises
              /\ exit_code' = 1
              /\ UNCHANGED << dir_made, files, partial >>
           \/ /\ dir_made' = TRUE
              /\ \/ /\ log' = Append(log, "error_unexpected")   \* open raises
                    /\ exit_code' = 1
                    /\ UNCHANGED << files, partial >>
                 \/ /\ log' = Append(log, "error_unexpected")   \* f.write raises
                    /\ exit_code' = 1
                    /\ partial' = partial \cup {FilePath(new_filename)}
                    /\ UNCHANGED files
                 \/ /\ log' = log \o <<"notice", "saved">>
                    /\ exit_code' = 0
                    /\ files' = files \cup {FilePath(new_filename)}
                    /\ UNCHANGED partial
  /\ pc' = "done"
  /\ UNCHANGED << argc, pdf_text, parse_calls, raw_date, subject, date_source, now,
                  date_prefix, new_filename >>

Next ==
  \/ CheckArgs
  \/ Download
  \/ ParseDetails
  \/ DownloadFailed
  \/ Compose
  \/ ExtractionFailed
  \/ Save

Spec == Init /\ [][Next]_vars

---------------------------------------------------------------------------
(* What the specification promises, stated on the characters of the text   *)
(* and on the numbers of a date, without the matching of the model above.  *)

AllDigits(f) == \A k \in 1..Len(f) : f[k] \in Digits

\* the fields of a numeric date: what stands between its separators
RECURSIVE FieldsOf(_)
FieldsOf(d) ==
  LET at == {k \in 1..Len(d) : d[k] \in {".", "/", "-"}}
  IN  IF at = {} THEN <<d>>
      ELSE <<SubSeq(d, 1, MinOf(at) - 1)>> \o FieldsOf(From(d, MinOf(at) + 1))

\* d reads D<sep>M<sep>YYYY
IsNumericDate(d) ==
  LET f == FieldsOf(d)
  IN  /\ Len(f) = 3
      /\ Len(f[1]) \in {1, 2} /\ Len(f[2]) \in {1, 2} /\ Len(f[3]) = 4
      /\ AllDigits(f[1]) /\ AllDigits(f[2]) /\ AllDigits(f[3])

\* 'Dated', 'Date' or 'No.' (any case) stands before position j, with nothing but
\* whitespace and colons in between
IsAnchored(text, j) ==
  \E kw \in {KW_DATED, KW_DATE, KW_NO} : \E i \in 1..(j - 1) :
    /\ i + Len(kw) <= j
    /\ Lower(SubSeq(text, i, i + Len(kw) - 1)) = kw
    /\ \A x \in (i + Len(kw))..(j - 1) : IsSpace(text[x]) \/ text[x] = ":"

\* the keyword-anchored numeric dates of the text, as <<position, length>>
AnchoredDates(text) ==
  { p \in (1..Len(text)) \X {8, 9, 10} :
      /\ text[p[1]] \in Digits
      /\ p[1] + p[2] - 1 <= Len(text)
      /\ IsNumericDate(SubSeq(text, p[1], p[1] + p[2] - 1))
      /\ IsAnchored(text, p[1]) }

\* the first of them as it stands in the text, None when there is none
ExpectedNumericDate(text) ==
  LET ds == AnchoredDates(text)
      p == CHOOSE q \in ds : \A r \in ds : q[1] <= r[1]
  IN  IF ds = {} THEN None ELSE SubSeq(text, p[1], p[1] + p[2] - 1)

\* the spelled-out date whose month name (number m) stands at position b, read
\* outwards from the name: <<b, day digits, m, year digits>>, or <<>>
SpelledDateAround(text, b, m) ==
  LET name == MonthNames[m]
      c == b + Len(name)                                       \* the comma
      y == MinOf({k \in (c + 1)..(Len(text) + 1) : k > Len(text) \/ ~IsSpace(text[k])})
      w == MaxOf({k \in 0..(b - 1) : k = 0 \/ ~IsSpace(text[k])})
      e == IF w >= 2 /\ Lower(SubSeq(text, w - 1, w)) \in Suffixes THEN w - 2 ELSE w
      s == IF e >= 2 /\ text[e - 1] \in Digits THEN e - 1 ELSE e
  IN  IF /\ c <= Len(text) /\ Lower(SubSeq(text, b, c - 1)) = name /\ text[c] = ","
         /\ y > c + 1 /\ y + 3 <= Len(text) /\ AllDigits(SubSeq(text, y, y + 3))
         /\ w < b - 1
         /\ e >= 1 /\ text[e] \in Digits
      THEN <<b, SubSeq(text, s, e), m, SubSeq(text, y, y + 3)>>
      ELSE <<>>

TwoDigits(n) == <<DigitSeq[(n \div 10) + 1], DigitSeq[(n % 10) + 1]>>
FourDigits(n) == TwoDigits(n \div 100) \o TwoDigits(n % 100)

\* DD/MM/YYYY of the first spelled-out date of the text, None when there is none
ExpectedSpelledDate(text) ==
  LET ds == {SpelledDateAround(text, p[1], p[2]) : p \in (1..Len(text)) \X (1..12)} \ {<<>>}
      d == CHOOSE q \in ds : \A r \in ds : q[1] <= r[1]
  IN  IF ds = {} THEN None
      ELSE (IF Len(d[2]) = 1 THEN <<"0">> \o d[2] ELSE d[2])
             \o <<"/">> \o TwoDigits(d[3]) \o <<"/">> \o d[4]

\* <<year, month, day>> of a raw date D<sep>M<sep>YYYY
DateNumbers(raw) ==
  LET f == FieldsOf(raw) IN <<ToInt(f[3]), ToInt(f[2]), ToInt(f[1])>>
MonthLengths == <<31, 28, 31, 30, 31, 30, 31, 31, 30, 31, 30, 31>>
\* ymd is a date of the calendar
IsCalendarDate(ymd) ==
  /\ ymd[1] >= 1
  /\ ymd[2] \in 1..12
  /\ ymd[3] >= 1
  /\ ymd[3] <= IF ymd[2] = 2 /\ ymd[1] % 4 = 0 /\ (ymd[1] % 100 # 0 \/ ymd[1] % 400 = 0)
               THEN 29 ELSE MonthLengths[ymd[2]]
\* YYYY-MM-DD
IsoDate(ymd) == FourDigits(ymd[1]) \o <<"-">> \o TwoDigits(ymd[2]) \o <<"-">> \o TwoDigits(ymd[3])
\* the same with the year as a bare number
BareYearDate(ymd) ==
  IntToStr(ymd[1]) \o <<"-">> \o TwoDigits(ymd[2]) \o <<"-">> \o TwoDigits(ymd[3])
\* s reads dddd-dd-dd
IsIsoLayout(s) ==
  /\ Len(s) = 10
  /\ \A k \in {1, 2, 3, 4, 6, 7, 9, 10} : s[k] \in Digits
  /\ s[5] = "-" /\ s[8] = "-"
StartsWith(s, prefix) == Len(prefix) <= Len(s) /\ SubSeq(s, 1, Len(prefix)) = prefix
\* the prefix the composer owes a raw date that is a date of the calendar
HasDatePrefixOf(raw) ==
  LET ymd == DateNumbers(raw)
  IN  /\ date_prefix \in {IsoDate(ymd), BareYearDate(ymd)}
      /\ ymd[1] >= 1000 => date_prefix = IsoDate(ymd)
      /\ StartsWith(new_filename, date_prefix \o <<"_">>)

\* the lines of the text that are not blank, as positions in text.split('\n')
NonBlankAt(lines) == {k \in 1..Len(lines) : \E x \in 1..Len(lines[k]) : ~IsSpace(lines[k][x])}
\* how many non-blank lines there are up to line k
RankIn(S, k) == Cardinality({j \in S : j <= k})
\* the n smallest elements of S, in order
RECURSIVE FirstOf(_, _)
FirstOf(S, n) ==
  IF n = 0 \/ S = {} THEN <<>> ELSE <<MinOf(S)>> \o FirstOf(S \ {MinOf(S)}, n - 1)

\* the heading of the text: among its first 10 non-blank lines, stripped, the first
\* that is longer than 30 characters, has no lower-case letter and does not
\* contain GOVERNMENT; <<>> when there is none
ExpectedHeading(text) ==
  LET lines == Split(text, "\n")
      nb == NonBlankAt(lines)
      ok == {k \in nb : /\ RankIn(nb, k) <= 10
                        /\ Len(Strip(lines[k])) > 30
                        /\ \A x \in 1..Len(lines[k]) : lines[k][x] \notin LowerSet
                        /\ Find(Strip(lines[k]), GOVERNMENT) = 0}
  IN  IF ok = {} THEN <<>> ELSE <<Strip(lines[MinOf(ok)])>>

\* the post-header fallback: the first three lines of `after` that are non-blank,
\* longer than 10 characters as they stand and lack 'Notification No.', stripped
\* and joined by single spaces; <<>> when there is none
ExpectedFallback(after) ==
  LET lines == Split(after, "\n")
      ok == {k \in NonBlankAt(lines) : Len(lines[k]) > 10 /\ Find(lines[k], NOTIFICATION_NO) = 0}
      first == FirstOf(ok, 3)
  IN  IF ok = {} THEN <<>>
      ELSE <<Join([i \in 1..Len(first) |-> Strip(lines[first[i]])], <<" ">>)>>

\* the subject before cleaning.  The fallback reads what follows the first
\* GOVERNMENT OF INDIA; where the text has no such header it reads the whole text
\* if whole_without_header, and nothing otherwise.
ExpectedRawSubject(text, whole_without_header) ==
  LET p == Find(text, GOVERNMENT_OF_INDIA)
      heading == ExpectedHeading(text)
      fallback == IF p # 0 THEN ExpectedFallback(From(text, p + Len(GOVERNMENT_OF_INDIA)))
                  ELSE IF whole_without_header THEN ExpectedFallback(text)
                  ELSE <<>>
  IN  IF heading # <<>> THEN heading[1]
      ELSE IF fallback # <<>> THEN fallback[1]
      ELSE SUBJECT_NOT_FOUND

---------------------------------------------------------------------------
(* The claims.                                                             *)

Parsed == parse_calls = 1
Composed == new_filename # None

\* C1, as claimed: whenever the first keyword-anchored match is a numeric date
\* D<sep>M<sep>YYYY, raw_date is that substring and the file name starts with
\* YYYY-MM-DD of the same year, month and day.
C1_AsClaimed ==
  (pc = "save" /\ date_source = "numeric") =>
    /\ raw_date = ExpectedNumericDate(pdf_text)
    /\ date_prefix = IsoDate(DateNumbers(raw_date))
    /\ StartsWith(new_filename, date_prefix \o <<"_">>)

\* C1, as amended: the numeric branch sets raw_date exactly when the text has a
\* keyword-anchored numeric date, and raw_date is then the first such date as it
\* stands in the text; if that date is a date of the calendar, the file name starts
\* with the year, '-', the two-digit month, '-', the two-digit day of that date, the
\* year written with four digits when it is 1000 or more (below 1000 it is written
\* with four digits or as the bare number).
C1_NumericDatePrefix ==
  /\ pc = "parsed" =>
       /\ (date_source = "numeric") <=> (ExpectedNumericDate(pdf_text) # None)
       /\ date_source = "numeric" => raw_date = ExpectedNumericDate(pdf_text)
  /\ (pc = "save" /\ date_source = "numeric" /\ IsCalendarDate(DateNumbers(raw_date)))
       => HasDatePrefixOf(raw_date)

\* a run whose numeric date 15/08/2025 became the prefix 2025-08-15
C1_Witness ==
  /\ pc = "save"
  /\ date_source = "numeric"
  /\ raw_date = << "1","5","/","0","8","/","2","0","2","5" >>
  /\ date_prefix = << "2","0","2","5","-","0","8","-","1","5" >>

C3_PrefixIsTenCharacters ==
  Composed =>
    /\ IsIsoLayout(date_prefix)
    /\ new_filename = date_prefix \o <<"_">> \o subject \o << ".","p","d","f" >>

\* C4: the subject normalization is idempotent: applied to its own output it
\* returns that output, for the subject the extractor returns and for the
\* normalization of the whole text.
C4_NormalizationIdempotent ==
  /\ pc = "parsed" => CleanSubject(subject) = subject
  /\ (pc = "downloaded" /\ Truthy(pdf_text)) =>
       CleanSubject(CleanSubject(pdf_text)) = CleanSubject(pdf_text)

\* a subject that the normalization cut at 80 characters and then stripped of the
\* underscore it ended with
C4_Witness ==
  /\ pc = "parsed"
  /\ Len(RawSubject(pdf_text)) > SubjectMaxLen
  /\ Len(subject) = SubjectMaxLen - 1
  /\ CollapseSpaces(Strip(RemoveUnsafe(RawSubject(pdf_text))))[SubjectMaxLen] = "_"

\* C5: the subject parse_gst_details returns is at most 80 characters long, does
\* not end with an underscore and holds only word characters and hyphens.
C5_SubjectIsSafe ==
  Parsed =>
    /\ Len(subject) <= 80
    /\ subject # <<>> => subject[Len(subject)] # "_"
    /\ \A k \in 1..Len(subject) :
         subject[k] \in Digits \cup LowerSet \cup UpperSet \cup {"_", "-"}

\* a subject of exactly 80 characters, cut from a longer one that held punctuation
C5_Witness ==
  /\ pc = "parsed"
  /\ Len(subject) = 80
  /\ Len(RawSubject(pdf_text)) > 80
  /\ RemoveUnsafe(RawSubject(pdf_text)) # RawSubject(pdf_text)

\* C6, as claimed: whenever raw_date is present but is no date of the calendar,
\* the run does not fail: the next step prints the warning, takes the current date
\* as YYYY-MM-DD for the prefix and goes on to the save step.
C6_AsClaimed ==
  [][ ( /\ pc = "parsed"
        /\ raw_date # None
        /\ ~IsCalendarDate(DateNumbers(raw_date)) )
      => ( /\ pc' = "save"
           /\ exit_code' = -1
           /\ now' \in Clock
           /\ date_prefix' = IsoDate(now')
           /\ log' = log \o <<"warning_date", "constructed">> ) ]_vars

\* C6, as amended: when raw_date is present but is no date of the calendar and the
\* subject was found (is neither empty nor the sentinel), the step that parses the
\* date does not end the run: it prints the warning, takes the current date as
\* YYYY-MM-DD for the prefix and goes on to the save step with
\* <that prefix>_<subject>.pdf.
C6_BadDateFallsBack ==
  [][ ( /\ pc = "parsed"
        /\ raw_date # None /\ subject # <<>> /\ subject # SUBJECT_NOT_FOUND
        /\ ~IsCalendarDate(DateNumbers(raw_date)) )
      => ( /\ pc' = "save"
           /\ exit_code' = -1
           /\ now' \in Clock
           /\ date_prefix' = IsoDate(now')
           /\ log' = log \o <<"warning_date", "constructed">>
           /\ new_filename' = date_prefix' \o <<"_">> \o subject \o << ".","p","d","f" >>
           /\ gets' = gets /\ files' = files ) ]_vars

\* the run is at the save step with the current date for 99/99/9999
C6_Witness ==
  /\ pc = "save"
  /\ raw_date = << "9","9","/","9","9","/","9","9","9","9" >>
  /\ now \in Clock
  /\ date_prefix = IsoDate(now)

\* C7: when the text matches neither date pattern, raw_date is absent, the run
\* reports the extraction failure and exits with status 1 without a second GET,
\* without creating the output directory and without writing a file, whatever the
\* subject; the empty text, which is never parsed, ends the run in the same way
\* after the message of the download step.
C7_NoDateNoFile ==
  /\ (pc = "parsed" /\ ExpectedNumericDate(pdf_text) = None
                     /\ ExpectedSpelledDate(pdf_text) = None)
       => (raw_date = None /\ date_source = "none")
  /\ (Parsed /\ raw_date = None) =>
       /\ pc \in {"parsed", "done"}
       /\ Len(gets) = 1 /\ ~dir_made /\ files = {} /\ partial = {} /\ new_filename = None
       /\ pc = "done" => exit_code = 1 /\ log[Len(log)] = "error_extract"
  /\ (pc = "done" /\ pdf_text = <<>>) =>
       /\ raw_date = None
       /\ exit_code = 1 /\ Len(gets) = 1 /\ ~dir_made /\ files = {} /\ partial = {}

\* a run that found a subject but no date and has exited
C7_Witness ==
  /\ pc = "done"
  /\ Parsed /\ raw_date = None
  /\ subject # <<>> /\ subject # SUBJECT_NOT_FOUND
  /\ exit_code = 1

\* C8: download_and_read_pdf never ends the run itself: on a network error, an
\* error status, an unreadable PDF or a PDF without pages it prints a message and
\* returns None; whenever it returned None or the empty text, parse_gst_details is
\* never called, no second GET is issued, no file is written and the exit status
\* is 1.
C8_DownloadFailureStops ==
  /\ pc = "downloaded" =>
       /\ exit_code = -1 /\ Len(gets) = 1
       /\ gets[1] # "ok" => (pdf_text = None /\ log[Len(log)] = "error_downloading")
       /\ pdf_text = None => log[Len(log)] \in {"error_downloading", "error_reading", "no_pages"}
  /\ (pc \in {"downloaded", "done"} /\ Len(gets) >= 1 /\ (pdf_text = None \/ pdf_text = <<>>)) =>
       /\ parse_calls = 0 /\ subject = None /\ raw_date = None
       /\ Len(gets) = 1 /\ ~dir_made /\ files = {} /\ partial = {}
       /\ pc = "done" => exit_code = 1
  /\ (Len(gets) >= 1 /\ (pdf_text = None \/ pdf_text = <<>>)) => pc \in {"downloaded", "done"}

\* a run that ended after a PDF without pages
C8_Witness ==
  /\ pc = "done"
  /\ pdf_text = None
  /\ log = <<"processing", "no_pages", "terminated">>
  /\ exit_code = 1

\* C9: a run goes through fetch, extract, compose and save in this order, each at
\* most once: at most two GETs, the second only after the first succeeded and the
\* extraction returned a date and a subject that is neither empty nor the sentinel;
\* it exits 0 exactly when the second GET succeeded and one file was written under
\* notifications/, and exits 1 after every failure.
C9_PipelineOrder ==
  /\ Len(gets) <= 2 /\ parse_calls <= 1
  /\ parse_calls = 1 => (Len(gets) >= 1 /\ gets[1] = "ok")
  /\ Composed => (parse_calls = 1 /\ pc \in {"save", "done"})
  /\ Len(gets) = 2 =>
       /\ gets[1] = "ok" /\ Composed /\ pc = "done"
       /\ raw_date # None /\ subject # <<>> /\ subject # SUBJECT_NOT_FOUND
  /\ (files # {} \/ partial # {} \/ dir_made) => (Len(gets) = 2 /\ gets[2] = "ok")
  /\ pc = "done" <=> exit_code # -1
  /\ pc = "done" =>
       /\ exit_code \in {0, 1}
       /\ exit_code = 0 <=>
            (Len(gets) = 2 /\ gets[2] = "ok" /\ files = {[dir |-> "notifications", name |-> new_filename]})
       /\ (argc # 2 \/ ~(Len(gets) = 2 /\ gets[2] = "ok") \/ files = {}) => exit_code = 1
  /\ Cardinality(files) <= 1

\* a run that saved its file and exited with status 0
C9_Witness ==
  /\ pc = "done"
  /\ exit_code = 0
  /\ gets = <<"ok", "ok">>
  /\ Cardinality(files) = 1

ScenarioA_Text == F_SCENARIO_HEAD \o <<"\n">> \o F_CAPS
ScenarioA_Filename ==
  << "2","0","2","5","-","0","8","-","1","5","_","E","X","E","M","P","T","I","O","N","_","F","R","O",
     "M","_","C","E","N","T","R","A","L","_","G","O","O","D","S","_","A","N","D","_","T","A","X",".",
     "p","d","f" >>

\* C10, as claimed: the subject is the first heading among the first 10 non-blank
\* lines; the fallback (the first three qualifying lines after the first
\* GOVERNMENT OF INDIA, joined by spaces) is used exactly when there is no heading;
\* if neither yields a candidate, the subject is the sentinel.
C10_AsClaimed ==
  pc = "parsed" => subject = CleanSubject(ExpectedRawSubject(pdf_text, FALSE))

\* C10, as amended: as claimed, except that where the text has no
\* GOVERNMENT OF INDIA the fallback takes its lines from the whole text; and the
\* text with Dated 15/08/2025 on line 2 and the heading on line 3 yields
\* 2025-08-15_EXEMPTION_FROM_CENTRAL_GOODS_AND_TAX.pdf.
C10_SubjectCascade ==
  /\ pc = "parsed" => subject = CleanSubject(ExpectedRawSubject(pdf_text, TRUE))
  /\ (pc = "save" /\ StartsWith(pdf_text, ScenarioA_Text)) => new_filename = ScenarioA_Filename

\* a text without header and without heading, whose subject is its first lines
C10_Witness ==
  /\ pc = "parsed"
  /\ Find(pdf_text, GOVERNMENT_OF_INDIA) = 0
  /\ ExpectedHeading(pdf_text) = <<>>
  /\ subject = << "t","h","e","_","5","t","h","_","N","o","v","e","m","b","e","r","_","2","0","2","5" >>
====
